---- MODULE Spec2Model ----
(***************************************************************************)
(* Model of src/src/module/item/abc/manager.ts: the class                  *)
(* AncestryBackgroundClassManager (addABCItem, ensureClassFeaturesForLevel,*)
(* getItemSource, getClassFeaturesForLevel, getFeatures, getFromCompendium,*)
(* addFeatures) acting on one character (actor).                           *)
(*                                                                         *)
(* An item of the actor is a record                                        *)
(*   [id, type, name, slug, featType, level, sourceId, location, ref,      *)
(*    build, inserted]                                                     *)
(* id        _id, a natural (randomID(16) is drawn from a counter)         *)
(* type      "ancestry" | "background" | "class" | "feat" | other          *)
(* featType  data.featType.value                                           *)
(* level     data.level.value                                              *)
(* sourceId  flags.core.sourceId, <<>> when the flag is absent             *)
(* location  data.location, 0 when unset                                   *)
(* ref       <<pack, id>> of the record the item was cloned from (pack ""  *)
(*           for game.items); bookkeeping only, the code never reads it    *)
(* build     for an ancestry/background/class: the name of its definition  *)
(* inserted  flags.pf2e.insertedClassFeaturesLevel, 0 when unset           *)
(*                                                                         *)
(* Spec and SpecLevel run the public methods as whole calls. SpecFault     *)
(* adds calls in which a collaborator throws, SpecOverlap suspends         *)
(* ensureClassFeaturesForLevel at its await (pending holds the suspended   *)
(* calls), and SpecResolve takes one getFeatures call step by step (res).  *)
(***************************************************************************)
EXTENDS Integers, Sequences, FiniteSets, TLC

VARIABLES level, items, nextId, ops, last, prev, res, pending

vars == <<level, items, nextId, ops, last, prev, res, pending>>

\* Character levels range over 1..MaxLevel.
MaxLevel == 4

\* Number of top-level calls in one behaviour.
MaxOps == 3

NoLocation == 0

NoSource == <<>>

----------------------------------------------------------------------------
\* Strings: names as UTF-16 code units, and the comparisons JavaScript makes.

Codes(name) ==
    CASE name = "Alpha"               -> <<65, 108, 112, 104, 97>>
      [] name = "Beta"                -> <<66, 101, 116, 97>>
      [] name = "Zeta"                -> <<90, 101, 116, 97>>
      [] name = "Gamma"               -> <<71, 97, 109, 109, 97>>
      [] name = "Delta"               -> <<68, 101, 108, 116, 97>>
      [] name = "Epsilon"             -> <<69, 112, 115, 105, 108, 111, 110>>
      [] name = "Lambda"              -> <<76, 97, 109, 98, 100, 97>>
      [] name = "alpha strike"        -> <<97, 108, 112, 104, 97, 32, 115, 116, 114, 105, 107, 101>>
      [] name = "Assurance"           -> <<65, 115, 115, 117, 114, 97, 110, 99, 101>>
      [] name = "Assurance (Stealth)" -> <<65, 115, 115, 117, 114, 97, 110, 99, 101, 32, 40,
                                           83, 116, 101, 97, 108, 116, 104, 41>>
      [] name = "Longsword"           -> <<76, 111, 110, 103, 115, 119, 111, 114, 100>>
      [] name = "Mu"                  -> <<77, 117>>
      [] OTHER                        -> <<>>

RECURSIVE SeqGT(_, _)
\* a > b on strings: lexicographic on code units, a proper prefix is smaller.
SeqGT(a, b) ==
    IF a = <<>> THEN FALSE
    ELSE IF b = <<>> THEN TRUE
    ELSE IF Head(a) # Head(b) THEN Head(a) > Head(b)
    ELSE SeqGT(Tail(a), Tail(b))

StrGT(a, b) == SeqGT(Codes(a), Codes(b))

\* `Assurance (${skill})`
AssuranceName(skill) ==
    CASE skill = "Stealth"   -> "Assurance (Stealth)"
      [] skill = "Athletics" -> "Assurance (Athletics)"

\* sluggify(name): lower case, runs of non-alphanumerics become one dash, trimmed.
sluggify(name) ==
    CASE name = "Assurance (Stealth)"   -> "assurance-stealth"
      [] name = "Assurance (Athletics)" -> "assurance-athletics"
      [] name = "Assurance"             -> "assurance"
      [] name = "alpha strike"          -> "alpha-strike"
      [] name = "Alpha"                 -> "alpha"
      [] name = "Beta"                  -> "beta"
      [] name = "Zeta"                  -> "zeta"
      [] name = "Gamma"                 -> "gamma"
      [] name = "Delta"                 -> "delta"
      [] name = "Epsilon"               -> "epsilon"
      [] name = "Lambda"                -> "lambda"
      [] name = "Mu"                    -> "mu"
      [] name = "Longsword"             -> "longsword"
      [] OTHER                          -> "unknown"

----------------------------------------------------------------------------
\* The world the manager reads: game.packs, game.items and the definitions
\* (sources) that can be passed to addABCItem.

Doc(id, isFeat, name, featType, lvl, pack) ==
    [id |-> id, isFeat |-> isFeat, name |-> name, slug |-> sluggify(name),
     featType |-> featType, level |-> lvl,
     sourceId |-> IF pack = "" THEN NoSource ELSE <<pack, id>>,
     ref |-> <<pack, id>>]

\* game.packs: the registered packs.
PackNames == {"feats-srd", "feats-extra"}

\* The documents of each pack, in the order a query returns them.
Packs ==
    [pack \in PackNames |->
       CASE pack = "feats-srd" ->
              << Doc("z3", TRUE, "Zeta", "classfeature", 1, pack),
                 Doc("a1", TRUE, "Alpha", "classfeature", 0, pack),
                 Doc("b1", TRUE, "Beta", "classfeature", 0, pack),
                 Doc("e5", TRUE, "Epsilon", "classfeature", 9, pack),
                 Doc("as", TRUE, "Assurance", "skill", 1, pack),
                 Doc("st", TRUE, "Assurance (Stealth)", "skill", 1, pack) >>
         [] pack = "feats-extra" ->
              << Doc("al", TRUE, "alpha strike", "classfeature", 4, pack),
                 Doc("g2", TRUE, "Gamma", "classfeature", 1, pack),
                 Doc("hf", TRUE, "Delta", "ancestryfeature", 0, pack),
                 Doc("sw", FALSE, "Longsword", "", 0, pack) >>]

PackDocs(pack) == Packs[pack]

\* game.items: the world's own items, by id.
GameIds == {"l1", "l2", "l3"}

GameItems ==
    [id \in GameIds |->
       CASE id = "l1" -> Doc("l1", TRUE, "Lambda", "classfeature", 4, "")
         [] id = "l2" -> Doc("l2", TRUE, "Epsilon", "skill", 1, "")
         [] id = "l3" -> Doc("l3", TRUE, "Mu", "classfeature", 3, "")]

\* game.items.get(id), for an id of the collection.
GameItem(id) == GameItems[id]

\* An ABCFeatureEntryData: pack "" is an entry without a pack.
Entry(pack, id, lvl) == [pack |-> pack, id |-> id, level |-> lvl]

\* The sources: type and Object.values(source.data.items).
BuildNames == {"Fighter", "Rogue", "Mystic", "Sage", "Elf", "Scholar", "Farmhand", "Broken", "Versatile"}

\* A class whose entries above level 1 cannot be resolved: the calls that throw
\* use it.
FaultyBuildNames == {"Cursed"}

BuildType(b) ==
    CASE b \in {"Fighter", "Rogue", "Mystic", "Sage", "Cursed"} -> "class"
      [] b = "Elf"                                 -> "ancestry"
      [] b \in {"Scholar", "Farmhand", "Broken"}   -> "background"
      [] b = "Versatile"                           -> "heritage"

Builds ==
  [b \in BuildNames \cup FaultyBuildNames |->
    CASE b = "Fighter"  -> << Entry("feats-srd", "z3", 3), Entry("feats-srd", "b1", 1),
                              Entry("feats-srd", "a1", 1) >>
      [] b = "Rogue"    -> << Entry("feats-srd", "a1", 1), Entry("feats-extra", "g2", 2),
                              Entry("feats-srd", "z3", 3), Entry("feats-srd", "e5", 5) >>
      [] b = "Mystic"   -> << Entry("", "l1", 1), Entry("feats-extra", "al", 2),
                              Entry("feats-srd", "z3", 2) >>
      [] b = "Sage"     -> << Entry("feats-srd", "b1", 0), Entry("feats-extra", "g2", 1) >>
      [] b = "Cursed"   -> << Entry("feats-srd", "a1", 1), Entry("feats-extra", "sw", 2),
                              Entry("feats-gone", "x9", 3) >>
      [] b = "Elf"      -> << Entry("feats-extra", "hf", 1), Entry("feats-srd", "as", 1) >>
      [] b = "Scholar"  -> << Entry("feats-srd", "as", 1), Entry("", "l2", 1) >>
      [] b = "Farmhand" -> << Entry("feats-srd", "b1", 1), Entry("", "l3", 3) >>
      [] b = "Broken"   -> << Entry("feats-srd", "a1", 1), Entry("feats-extra", "sw", 1) >>
      [] b = "Versatile" -> <<>>]

\* Object.values(source.data.items)
BuildEntries(b) == Builds[b]

BuildSlug(b) ==
    CASE b = "Fighter" -> "fighter" [] b = "Rogue" -> "rogue" [] b = "Mystic" -> "mystic"
      [] b = "Sage" -> "sage" [] b = "Cursed" -> "cursed"
      [] b = "Elf" -> "elf" [] b = "Scholar" -> "scholar" [] b = "Farmhand" -> "farmhand"
      [] b = "Broken" -> "broken" [] b = "Versatile" -> "versatile"

\* options.assurance: absent (<<>>) or a list of skills.
AssuranceOptions == {<<>>, <<"Stealth">>, <<"Stealth", "Athletics">>, <<"Athletics">>}

----------------------------------------------------------------------------
\* Sequence helpers.

\* Array.prototype.filter
Filter(s, Test(_)) == SelectSeq(s, Test)

\* Array.prototype.findIndex, 1-based; 0 when nothing matches (-1 in the code).
FindIndex(s, Test(_)) ==
    IF \E i \in 1..Len(s) : Test(s[i])
    THEN CHOOSE i \in 1..Len(s) : Test(s[i]) /\ \A j \in 1..(i - 1) : ~Test(s[j])
    ELSE 0

Range(s) == {s[i] : i \in 1..Len(s)}

\* entries.map(e => e.pack) with no Set around it: a pack for every entry.
EveryEntrysPack(entries) == [i \in 1..Len(entries) |-> entries[i].pack]

\* new Set(entries.map(e => e.pack)): the distinct packs, in order of first use.
RECURSIVE DistinctPacks(_)
DistinctPacks(entries) ==
    IF entries = <<>> THEN <<>>
    ELSE LET rest == DistinctPacks(SubSeq(entries, 1, Len(entries) - 1))
             p == entries[Len(entries)].pack
         IN  IF p \in Range(rest) THEN rest ELSE Append(rest, p)

----------------------------------------------------------------------------
\* Records handed to the actor.

\* feat.toObject() with a new _id and data.location.
FeatSource(doc, id, location) ==
    [id |-> id, type |-> "feat", name |-> doc.name, slug |-> doc.slug,
     featType |-> doc.featType, level |-> doc.level, sourceId |-> doc.sourceId,
     location |-> location, ref |-> doc.ref, build |-> "", inserted |-> 0]

\* The source of an ancestry, background or class with its new _id.
ABCSource(b, id, inserted) ==
    [id |-> id, type |-> BuildType(b), name |-> b, slug |-> BuildSlug(b),
     featType |-> "", level |-> 0, sourceId |-> NoSource,
     location |-> NoLocation, ref |-> <<"", b>>, build |-> b, inserted |-> inserted]

\* A call's outcome: err is "" when it returned, else the error thrown.
Ok(value) == [err |-> "", value |-> value]

Threw(err) == [err |-> err, value |-> <<>>]

----------------------------------------------------------------------------
\* The actor's collaborators (not in manager.ts).

\* actor.ancestry / actor.background / actor.class: the items of that type.
ActorItemsOfType(its, type) == {i \in its : i.type = type}

\* item.delete() on an ancestry, background or class: the item goes, and with it
\* the feats whose data.location is the item's id.
ItemDelete(its, item) ==
    its \ ({item} \cup {f \in its : f.type = "feat" /\ f.location = item.id})

\* actor.createEmbeddedDocuments("Item", sources, {keepId: true})
createEmbeddedDocuments(its, sources) == its \cup Range(sources)

\* actor.deleteEmbeddedDocuments("Item", ids)
deleteEmbeddedDocuments(its, ids) == {i \in its : i.id \notin ids}

\* pack.getDocuments({_id: {$in: ids}}): one query, the pack's documents among ids.
getDocumentsByIds(pack, ids) == Filter(PackDocs(pack), LAMBDA d : d.id \in ids)

\* pack.getDocuments({"data.slug": {$in: [slug]}})
getDocumentsBySlug(pack, slug) == Filter(PackDocs(pack), LAMBDA d : d.slug = slug)

----------------------------------------------------------------------------
\* manager.ts

\* getItemSource("pf2e.feats-srd", name)
getItemSource(packName, name) ==
    IF packName \notin PackNames THEN Threw("RepositoryNotFound")
    ELSE LET docs == getDocumentsBySlug(packName, sluggify(name))
         IN  IF Len(docs) = 1 THEN Ok(docs[1]) ELSE Threw("NameNotFound")

\* Lines 160-166: the level of a fetched class feature is set from the first
\* entry with the document's id.
OverrideLevel(entries, feature) ==
    LET i == FindIndex(entries, LAMBDA e : e.id = feature.id)
    IN  IF i > 0 /\ feature.featType = "classfeature"
        THEN [feature EXCEPT !.level = entries[i].level]
        ELSE feature

\* Line 154: the ids of the entries of this pack.
EntryIds(entries, pack) == {e.id : e \in {x \in Range(entries) : x.pack = pack}}

\* FetchOne without lines 160-166: the fetched documents keep their levels.
FetchOneKeepLevels(entries, pack) ==
    IF pack \notin PackNames THEN Threw("RepositoryNotFound")
    ELSE Ok(getDocumentsByIds(pack, EntryIds(entries, pack)))

\* One pass of the loop of getFromCompendium (lines 153-168): the pack's
\* documents are fetched and the levels of its class features are set.
FetchOne(entries, pack) ==
    IF pack \notin PackNames THEN Threw("RepositoryNotFound")
    ELSE LET features == getDocumentsByIds(pack, EntryIds(entries, pack))
         IN  Ok([i \in 1..Len(features) |-> OverrideLevel(entries, features[i])])

RECURSIVE FetchPacks(_, _)
\* The loop of getFromCompendium over the packs left to fetch.
FetchPacks(entries, packs) ==
    IF packs = <<>> THEN Ok(<<>>)
    ELSE LET done == FetchOne(entries, Head(packs))
         IN  IF done.err # "" THEN done
             ELSE LET rest == FetchPacks(entries, Tail(packs))
                  IN  IF rest.err # "" THEN rest ELSE Ok(done.value \o rest.value)

getFromCompendium(entries) == FetchPacks(entries, DistinctPacks(entries))

\* CloneFeats with the location set on the game.items feats as well.
CloneFeatsLocateAll(compendiumFeats, gameEntries, locationId, firstId) ==
    IF \E i \in 1..Len(compendiumFeats) : ~compendiumFeats[i].isFeat
    THEN Threw("InvalidReference")
    ELSE IF \E i \in 1..Len(gameEntries) :
               gameEntries[i].id \notin GameIds \/ ~GameItem(gameEntries[i].id).isFeat
    THEN Threw("InvalidReference")
    ELSE LET n == Len(compendiumFeats)
         IN  Ok([i \in 1..n |-> FeatSource(compendiumFeats[i], firstId + i - 1, locationId)]
                \o [i \in 1..Len(gameEntries) |->
                      FeatSource(GameItem(gameEntries[i].id), firstId + n + i - 1, locationId)])

\* Lines 117-143 of getFeatures: the fetched feats get a new id and the location,
\* the game.items feats a new id; anything that is not a feat is an error.
CloneFeats(compendiumFeats, gameEntries, locationId, firstId) ==
    IF \E i \in 1..Len(compendiumFeats) : ~compendiumFeats[i].isFeat
    THEN Threw("InvalidReference")
    ELSE IF \E i \in 1..Len(gameEntries) :
               gameEntries[i].id \notin GameIds \/ ~GameItem(gameEntries[i].id).isFeat
    THEN Threw("InvalidReference")
    ELSE LET n == Len(compendiumFeats)
         IN  Ok([i \in 1..n |-> FeatSource(compendiumFeats[i], firstId + i - 1, locationId)]
                \o [i \in 1..Len(gameEntries) |->
                      FeatSource(GameItem(gameEntries[i].id), firstId + n + i - 1, NoLocation)])

\* Line 114: the entries that name a pack.
PackEntries(entries) == Filter(entries, LAMBDA e : e.pack # "")

\* getFeatures(entries, locationId); the new ids are firstId, firstId + 1, ...
getFeatures(entries, locationId, firstId) ==
    LET packEntries == PackEntries(entries)
        gameEntries == Filter(entries, LAMBDA e : e.pack = "")
        compendium == IF packEntries = <<>> THEN Ok(<<>>) ELSE getFromCompendium(packEntries)
    IN  IF compendium.err # "" THEN compendium
        ELSE CloneFeats(compendium.value, gameEntries, locationId, firstId)

\* SelectEntries with level >= minLevel for level > minLevel.
SelectEntriesFromMin(b, minLevel, actorLevel) ==
    IF minLevel >= actorLevel THEN <<>>
    ELSE Filter(BuildEntries(b), LAMBDA e : actorLevel >= e.level /\ e.level >= minLevel)

\* Lines 95-105 of getClassFeaturesForLevel: the entries to resolve (none when
\* minLevel >= actorLevel, where the method returns [] at once).
SelectEntries(b, minLevel, actorLevel) ==
    IF minLevel >= actorLevel THEN <<>>
    ELSE Filter(BuildEntries(b), LAMBDA e : actorLevel >= e.level /\ e.level > minLevel)

\* getClassFeaturesForLevel(item, minLevel, actorLevel): item is the class source
\* (its id and the entries of its definition).
getClassFeaturesForLevel(itemId, b, minLevel, actorLevel, firstId) ==
    getFeatures(SelectEntries(b, minLevel, actorLevel), itemId, firstId)

\* Compare with the names compared the other way round.
CompareNameDescending(featureA, featureB) ==
    IF featureA.level > featureB.level THEN 1
    ELSE IF featureA.level = featureB.level
         THEN (IF StrGT(featureB.name, featureA.name) THEN 1 ELSE -1)
         ELSE -1

\* The comparator of addABCItem's sort (lines 35-45).
Compare(featureA, featureB) ==
    IF featureA.level > featureB.level THEN 1
    ELSE IF featureA.level = featureB.level
         THEN (IF StrGT(featureA.name, featureB.name) THEN 1 ELSE -1)
         ELSE -1

RECURSIVE Sorts(_)
\* The orders Array.prototype.sort can leave the features in: an element comes
\* first only if the comparator puts none of the others before it.  (Two features
\* of one level and one name compare -1 both ways, so either may come first.)
Sorts(S) ==
    IF S = {} THEN {<<>>}
    ELSE UNION {{<<m>> \o t : t \in Sorts(S \ {m})} :
                m \in {x \in S : \A y \in S \ {x} :
                                   ~(Compare(x, y) = 1 /\ Compare(y, x) = -1)}}

\* itemsToCreate.sort(...) of addABCItem.
SortFeatures(feats) == Sorts(Range(feats))

RECURSIVE AssuranceLoopAppend(_, _, _)
\* AssuranceLoop appending the variant instead of replacing the feature.
AssuranceLoopAppend(itemsToCreate, skills, firstId) ==
    IF skills = <<>> THEN Ok(itemsToCreate)
    ELSE LET index == FindIndex(itemsToCreate, LAMBDA item : item.slug = "assurance")
         IN  IF index = 0 THEN AssuranceLoopAppend(itemsToCreate, Tail(skills), firstId)
             ELSE LET found == getItemSource("feats-srd", AssuranceName(Head(skills)))
                  IN  IF found.err # "" THEN found
                      ELSE Ok(Append(itemsToCreate, FeatSource(found.value, firstId, NoLocation)))

RECURSIVE AssuranceLoop(_, _, _)
\* The loop over options.assurance of addFeatures (lines 187-197).
AssuranceLoop(itemsToCreate, skills, firstId) ==
    IF skills = <<>> THEN Ok(itemsToCreate)
    ELSE LET index == FindIndex(itemsToCreate, LAMBDA item : item.slug = "assurance")
         IN  IF index = 0 THEN AssuranceLoop(itemsToCreate, Tail(skills), firstId)
             ELSE LET location == itemsToCreate[index].location
                      found == getItemSource("feats-srd", AssuranceName(Head(skills)))
                  IN  IF found.err # "" THEN found
                      ELSE AssuranceLoop(
                               [itemsToCreate EXCEPT ![index] = FeatSource(found.value, firstId, location)],
                               Tail(skills), firstId + 1)

\* addFeatures(itemSource, actor, true, options) up to its createEmbeddedDocuments:
\* the list it passes on.
addFeatures(b, options, firstId) ==
    LET itemSource == ABCSource(b, firstId, 0)
        feats == getFeatures(BuildEntries(b), itemSource.id, firstId + 1)
    IN  IF feats.err # "" THEN feats
        ELSE AssuranceLoop(<<itemSource>> \o feats.value, options, firstId + 1 + Len(feats.value))

\* DeleteCurrent without the delete.
DeleteNothing(its, type) == its

\* await actor.ancestry?.delete() (and background, class): lines 20, 24, 28.
DeleteCurrent(its, type) ==
    LET cur == ActorItemsOfType(its, type)
    IN  IF cur = {} THEN its ELSE ItemDelete(its, CHOOSE i \in cur : TRUE)

\* What a call did: the error thrown ("" if none), the actor's items after it, the
\* list passed to createEmbeddedDocuments and the ids passed to
\* deleteEmbeddedDocuments.
Outcome(err, its, created, deleted) ==
    [err |-> err, items |-> its, created |-> created, deleted |-> deleted]

\* The class branch of addABCItem (lines 27-47).
addClass(its, lvl, b, firstId) ==
    LET its1 == DeleteCurrent(its, "class")
        source == ABCSource(b, firstId, lvl)
        itemsToCreate == getClassFeaturesForLevel(source.id, b, 0, lvl, firstId + 1)
    IN  IF itemsToCreate.err # "" THEN {Outcome(itemsToCreate.err, its1, <<>>, {})}
        ELSE {Outcome("", createEmbeddedDocuments(its1, sorted \o <<source>>),
                      sorted \o <<source>>, {}) :
              sorted \in SortFeatures(itemsToCreate.value)}

\* The ancestry and background branches of addABCItem (lines 19-26).
addAncestryOrBackground(its, b, options, firstId) ==
    LET its1 == DeleteCurrent(its, BuildType(b))
        itemsToCreate == addFeatures(b, options, firstId)
    IN  IF itemsToCreate.err # "" THEN {Outcome(itemsToCreate.err, its1, <<>>, {})}
        ELSE {Outcome("", createEmbeddedDocuments(its1, itemsToCreate.value),
                      itemsToCreate.value, {})}

\* addABCItem with no default branch: any other type is taken for a background.
addABCItemNoDefault(its, lvl, b, options, firstId) ==
    IF BuildType(b) = "class" THEN addClass(its, lvl, b, firstId)
    ELSE addAncestryOrBackground(its, b, options, firstId)

\* addABCItem(source, actor, options): the outcomes it can have.
addABCItem(its, lvl, b, options, firstId) ==
    CASE BuildType(b) \in {"ancestry", "background"} ->
           addAncestryOrBackground(its, b, options, firstId)
      [] BuildType(b) = "class" -> addClass(its, lvl, b, firstId)
      [] OTHER -> {Outcome("UnsupportedBuildKind", its, <<>>, {})}

\* actor.itemTypes.feat.filter(feat => feat.featType.value === "classfeature")
ClassFeatures(its) == {f \in its : f.type = "feat" /\ f.featType = "classfeature"}

\* AlreadyPresent without the comparison.
AlreadyPresentNever(current, feature) == FALSE

\* Line 63: some current class feature has the feature's flags.core.sourceId.
\* (Every feature fetched for a level change in this world carries the flag, so
\* the comparison of two absent flags never decides the outcome.)
AlreadyPresent(current, feature) ==
    \E currentFeature \in current : currentFeature.sourceId = feature.sourceId

\* ToDelete with >= for >.
ToDeleteInclusive(current, newLevel) == {feat.id : feat \in {f \in current : f.level >= newLevel}}

\* Line 67: the ids of the current class features above newLevel.
ToDelete(current, newLevel) == {feat.id : feat \in {f \in current : f.level > newLevel}}

\* ensureClassFeaturesForLevel clearing the current class features before it
\* fetches for a higher level, the way addABCItem deletes before it resolves.
ensureClassFeaturesForLevelClearFirst(its, lvl, newLevel, firstId) ==
    LET classes == ActorItemsOfType(its, "class")
    IN  IF classes = {} THEN Outcome("", its, <<>>, {})
        ELSE LET actorClass == CHOOSE c \in classes : TRUE
                 current == ClassFeatures(its)
                 cleared == {f.id : f \in current}
                 its1 == deleteEmbeddedDocuments(its, cleared)
             IN  IF newLevel > lvl
                 THEN LET fetched == getClassFeaturesForLevel(actorClass.id, actorClass.build,
                                                              0, newLevel, firstId)
                      IN  IF fetched.err # "" THEN Outcome(fetched.err, its1, <<>>, cleared)
                          ELSE Outcome("", createEmbeddedDocuments(its1, fetched.value),
                                       fetched.value, cleared)
                 ELSE IF newLevel < lvl
                 THEN Outcome("", deleteEmbeddedDocuments(its, ToDelete(current, newLevel)),
                              <<>>, ToDelete(current, newLevel))
                 ELSE Outcome("", its, <<>>, {})

\* ensureClassFeaturesForLevel(actor, newLevel) (lines 54-70).
ensureClassFeaturesForLevel(its, lvl, newLevel, firstId) ==
    LET classes == ActorItemsOfType(its, "class")
    IN  IF classes = {} THEN Outcome("", its, <<>>, {})
        ELSE LET actorClass == CHOOSE c \in classes : TRUE
                 current == ClassFeatures(its)
             IN  IF newLevel > lvl
                 THEN LET fetched == getClassFeaturesForLevel(actorClass.id, actorClass.build,
                                                              lvl, newLevel, firstId)
                      IN  IF fetched.err # "" THEN Outcome(fetched.err, its, <<>>, {})
                          ELSE LET classFeaturesToCreate ==
                                       Filter(fetched.value, LAMBDA feature :
                                           ~AlreadyPresent(current, feature))
                               IN  Outcome("", createEmbeddedDocuments(its, classFeaturesToCreate),
                                           classFeaturesToCreate, {})
                 ELSE IF newLevel < lvl
                 THEN LET classFeaturestoDelete == ToDelete(current, newLevel)
                      IN  Outcome("", deleteEmbeddedDocuments(its, classFeaturestoDelete),
                                  <<>>, classFeaturestoDelete)
                 ELSE Outcome("", its, <<>>, {})

----------------------------------------------------------------------------
\* The state machine: one character, and the calls made on it one after another.
\* last and prev record the two most recent calls.

Call(op, b, newLevel, options, out, preItems, preLevel) ==
    [op |-> op, build |-> b, newLevel |-> newLevel, options |-> options,
     err |-> out.err, created |-> out.created, deleted |-> out.deleted,
     preItems |-> preItems, preLevel |-> preLevel]

NoCall == Call("none", "", 0, <<>>, Outcome("", {}, <<>>, {}), {}, 0)

\* The largest id in use after a call: ids are never reused.
IdsAfter(out) ==
    LET used == {nextId} \cup {i.id : i \in out.items} \cup {out.created[k].id : k \in 1..Len(out.created)}
    IN  CHOOSE m \in used : \A x \in used : x <= m

\* options is read on the ancestry and background branches only, and there only
\* once a feature with slug "assurance" has been resolved (line 189): the calls
\* take options where an entry is the Assurance feat.
OptionsFor(b) ==
    IF /\ BuildType(b) \in {"ancestry", "background"}
       /\ \E e \in Range(BuildEntries(b)) : e.id = "as"
    THEN AssuranceOptions ELSE {<<>>}

\* No getFeatures call under way.
NoResolution == [pc |-> "idle"]

\* A character of some level with no items yet.
Init ==
    /\ level \in 1..MaxLevel
    /\ items = {}
    /\ nextId = 0
    /\ ops = 0
    /\ last = NoCall
    /\ prev = NoCall
    /\ res = NoResolution
    /\ pending = {}

\* A call of addABCItem(source, actor, options).
Attach(b, options) ==
    /\ ops < MaxOps
    /\ \E out \in addABCItem(items, level, b, options, nextId + 1) :
          /\ items' = out.items
          /\ nextId' = IdsAfter(out)
          /\ last' = Call("attach", b, 0, options, out, items, level)
    /\ prev' = last
    /\ ops' = ops + 1
    /\ UNCHANGED <<level, res, pending>>

\* A call of ensureClassFeaturesForLevel(actor, newLevel) on its own.
Sync(newLevel) ==
    /\ ops < MaxOps
    /\ \E out \in {ensureClassFeaturesForLevel(items, level, newLevel, nextId + 1)} :
          /\ items' = out.items
          /\ nextId' = IdsAfter(out)
          /\ last' = Call("sync", "", newLevel, <<>>, out, items, level)
    /\ prev' = last
    /\ ops' = ops + 1
    /\ UNCHANGED <<level, res, pending>>

\* The character's level is changed to newLevel: the update calls
\* ensureClassFeaturesForLevel(actor, newLevel) first and, unless that throws,
\* the level becomes newLevel.
UpdateLevel(newLevel) ==
    /\ ops < MaxOps
    /\ newLevel # level
    /\ \E out \in {ensureClassFeaturesForLevel(items, level, newLevel, nextId + 1)} :
          /\ items' = out.items
          /\ nextId' = IdsAfter(out)
          /\ last' = Call("update", "", newLevel, <<>>, out, items, level)
          /\ level' = IF out.err = "" THEN newLevel ELSE level
    /\ prev' = last
    /\ ops' = ops + 1
    /\ UNCHANGED <<res, pending>>

Next ==
    \/ \E b \in BuildNames : \E options \in OptionsFor(b) : Attach(b, options)
    \/ \E newLevel \in 1..MaxLevel : Sync(newLevel)
    \/ \E newLevel \in 1..MaxLevel : UpdateLevel(newLevel)

Spec == Init /\ [][Next]_vars

\* The calls as the character sheet makes them: ensureClassFeaturesForLevel runs
\* only as part of a level change.
NextLevel ==
    \/ \E b \in BuildNames : \E options \in OptionsFor(b) : Attach(b, options)
    \/ \E newLevel \in 1..MaxLevel : UpdateLevel(newLevel)

SpecLevel == Init /\ [][NextLevel]_vars

----------------------------------------------------------------------------
\* Calls in which a collaborator throws: a getDocuments query ("LookupFailed"),
\* createEmbeddedDocuments ("AttachFailed") or deleteEmbeddedDocuments
\* ("DetachFailed"). No method of the manager catches anything, so the call
\* ends there with what it had done up to that await.

MaxFaultOps == 2

\* addABCItem when its first getDocuments query throws (from lines 34 or 185),
\* or when createEmbeddedDocuments throws (lines 46, 198).
addABCItemFault(its, lvl, b, fault) ==
    IF BuildType(b) \notin {"ancestry", "background", "class"} THEN {}
    ELSE LET its1 == DeleteCurrent(its, BuildType(b))
             entries == IF BuildType(b) = "class" THEN SelectEntries(b, 0, lvl)
                        ELSE BuildEntries(b)
             packs == DistinctPacks(PackEntries(entries))
         IN  CASE fault = "LookupFailed" ->
                    IF packs # <<>> /\ Head(packs) \in PackNames
                    THEN {Outcome(fault, its1, <<>>, {})} ELSE {}
               [] fault = "AttachFailed" ->
                    IF \E out \in addABCItem(its, lvl, b, <<>>, 1) : out.err = ""
                    THEN {Outcome(fault, its1, <<>>, {})} ELSE {}
               [] OTHER -> {}

\* ensureClassFeaturesForLevel when its first getDocuments query throws (from
\* line 60), when createEmbeddedDocuments throws (line 65) or when
\* deleteEmbeddedDocuments throws (line 68).
ensureClassFeaturesForLevelFault(its, lvl, newLevel, fault) ==
    LET classes == ActorItemsOfType(its, "class")
        normal == ensureClassFeaturesForLevel(its, lvl, newLevel, 1)
    IN  IF classes = {} THEN {}
        ELSE LET actorClass == CHOOSE c \in classes : TRUE
                 packs == DistinctPacks(PackEntries(SelectEntries(actorClass.build, lvl, newLevel)))
             IN  CASE fault = "LookupFailed" ->
                        IF newLevel > lvl /\ packs # <<>> /\ Head(packs) \in PackNames
                        THEN {Outcome(fault, its, <<>>, {})} ELSE {}
                   [] fault = "AttachFailed" ->
                        IF newLevel > lvl /\ normal.err = ""
                        THEN {Outcome(fault, its, <<>>, {})} ELSE {}
                   [] fault = "DetachFailed" ->
                        IF newLevel < lvl THEN {Outcome(fault, its, <<>>, {})} ELSE {}

Faults == {"LookupFailed", "AttachFailed", "DetachFailed"}

\* A call of addABCItem in which a collaborator throws.
AttachFault(b, fault) ==
    /\ ops < MaxOps
    /\ \E out \in addABCItemFault(items, level, b, fault) :
          /\ items' = out.items
          /\ last' = Call("attach", b, 0, <<>>, out, items, level)
    /\ prev' = last
    /\ ops' = ops + 1
    /\ UNCHANGED <<level, nextId, res, pending>>

\* A call of ensureClassFeaturesForLevel in which a collaborator throws.
SyncFault(newLevel, fault) ==
    /\ ops < MaxOps
    /\ \E out \in ensureClassFeaturesForLevelFault(items, level, newLevel, fault) :
          /\ items' = out.items
          /\ last' = Call("sync", "", newLevel, <<>>, out, items, level)
    /\ prev' = last
    /\ ops' = ops + 1
    /\ UNCHANGED <<level, nextId, res, pending>>

\* A few calls, any of which may meet a throwing collaborator.
NextFault ==
    \/ \E b \in BuildNames \cup FaultyBuildNames : \E options \in OptionsFor(b) :
          ops < MaxFaultOps /\ Attach(b, options)
    \/ \E newLevel \in 1..MaxLevel :
          ops < MaxFaultOps /\ Sync(newLevel)
    \/ \E b \in BuildNames \cup FaultyBuildNames : \E fault \in Faults :
          ops < MaxFaultOps /\ AttachFault(b, fault)
    \/ \E newLevel \in 1..MaxLevel : \E fault \in Faults :
          ops < MaxFaultOps /\ SyncFault(newLevel, fault)

SpecFault == Init /\ [][NextFault]_vars

----------------------------------------------------------------------------
\* Calls of ensureClassFeaturesForLevel that overlap. The method reads
\* actor.class, the current class features and actor.level (lines 55-59) and is
\* then suspended in the await of line 60 until the packs have answered; other
\* calls can run in between. When it resumes it filters what was fetched against
\* the class features it read before the await and creates the rest (61-65).

MaxPending == 2

\* The call starts and is suspended in its fetch; what it has read is kept.
SyncBegin(newLevel) ==
    /\ ops < MaxOps
    /\ Cardinality(pending) < MaxPending
    /\ ActorItemsOfType(items, "class") # {}
    /\ newLevel > level
    /\ LET actorClass == CHOOSE c \in ActorItemsOfType(items, "class") : TRUE
       IN  PackEntries(SelectEntries(actorClass.build, level, newLevel)) # <<>>
    /\ pending' = pending \cup {[call |-> ops + 1, newLevel |-> newLevel,
                                  preItems |-> items, preLevel |-> level]}
    /\ ops' = ops + 1
    /\ UNCHANGED <<level, items, nextId, last, prev, res>>

\* A suspended call resumes: the fetch has answered (or thrown), and the features
\* not among those read at the start are created on the actor as it is now.
SyncResume(call) ==
    /\ call \in pending
    /\ \E read \in {ensureClassFeaturesForLevel(call.preItems, call.preLevel,
                                                  call.newLevel, nextId + 1)} :
       \E out \in {Outcome(read.err, createEmbeddedDocuments(items, read.created),
                            read.created, {})} :
          /\ items' = out.items
          /\ nextId' = IdsAfter(out)
          /\ last' = Call("resume", "", call.newLevel, <<>>, out, call.preItems, call.preLevel)
    /\ prev' = last
    /\ pending' = pending \ {call}
    /\ UNCHANGED <<level, ops, res>>

NextOverlap ==
    \/ \E b \in BuildNames : \E options \in OptionsFor(b) : Attach(b, options)
    \/ \E newLevel \in 1..MaxLevel : SyncBegin(newLevel)
    \/ \E call \in pending : SyncResume(call)

SpecOverlap == Init /\ [][NextOverlap]_vars

----------------------------------------------------------------------------
\* One call of getFeatures taken step by step: each pass of the loop of
\* getFromCompendium is a step, and so is the cloning that follows the loop.
\* res.queries lists the getDocuments calls made so far, res.overridden the
\* fetched documents whose level has been set so far.

MaxEntries == 3

\* Entries an item's data.items can hold.
EntryPool ==
    { Entry("feats-srd", "a1", 1), Entry("feats-srd", "a1", 3), Entry("feats-srd", "as", 1),
      Entry("feats-extra", "g2", 2), Entry("feats-extra", "sw", 1),
      Entry("feats-gone", "x9", 1), Entry("", "l1", 2) }

\* Five entries of one pack and two of another.
FiveAndTwo ==
    << Entry("feats-srd", "z3", 1), Entry("feats-extra", "al", 1), Entry("feats-srd", "a1", 2),
       Entry("feats-srd", "b1", 2), Entry("feats-extra", "g2", 3), Entry("feats-srd", "e5", 4),
       Entry("feats-srd", "as", 5) >>

EntryLists ==
    {FiveAndTwo} \cup UNION {[1..n -> EntryPool] : n \in 0..MaxEntries}

\* A call about to be made: getClassFeaturesForLevel(item, minLevel, actorLevel)
\* for a class b, or getFeatures(given, locationId) when b is "".
Request(b, minLevel, actorLevel, given) ==
    [pc |-> "start", build |-> b, minLevel |-> minLevel, actorLevel |-> actorLevel,
     given |-> given, locationId |-> 1, entries |-> <<>>, packs |-> <<>>,
     queries |-> <<>>, fetched |-> <<>>, overridden |-> {}, cloned |-> FALSE,
     err |-> "", value |-> <<>>]

Requests ==
    {Request(b, minLevel, actorLevel, <<>>) :
        b \in {x \in BuildNames \cup FaultyBuildNames : BuildType(x) = "class"},
        minLevel \in 0..MaxLevel, actorLevel \in 1..MaxLevel}
    \cup {Request("", 0, 0, given) : given \in EntryLists}

InitResolve ==
    /\ level = 1
    /\ items = {}
    /\ nextId = 0
    /\ ops = 0
    /\ last = NoCall
    /\ prev = NoCall
    /\ res \in Requests
    /\ pending = {}

\* The fetched documents whose level the loop body sets (lines 160-166).
Overridden(entries, features) ==
    {f.ref : f \in {x \in Range(features) :
                       /\ x.featType = "classfeature"
                       /\ FindIndex(entries, LAMBDA e : e.id = x.id) > 0}}

\* The call is entered: the entries are selected (lines 95-105) and split, and
\* the packs to fetch from are collected (lines 114, 151).
ResolveStart ==
    /\ res.pc = "start"
    /\ LET entries == IF res.build = "" THEN res.given
                      ELSE SelectEntries(res.build, res.minLevel, res.actorLevel)
       IN  res' = [res EXCEPT !.pc = "fetch", !.entries = entries,
                              !.packs = DistinctPacks(PackEntries(entries))]
    /\ UNCHANGED <<level, items, nextId, ops, last, prev, pending>>

\* One pass of the loop of getFromCompendium (lines 152-169).
ResolveFetch ==
    /\ res.pc = "fetch"
    /\ res.packs # <<>>
    /\ LET pack == Head(res.packs)
           entries == PackEntries(res.entries)
           done == FetchOne(entries, pack)
       IN  IF done.err # ""
           THEN res' = [res EXCEPT !.pc = "done", !.err = done.err]
           ELSE res' = [res EXCEPT
                          !.packs = Tail(@),
                          !.queries = Append(@, [pack |-> pack, ids |-> EntryIds(entries, pack)]),
                          !.fetched = @ \o done.value,
                          !.overridden = @ \cup Overridden(entries, getDocumentsByIds(pack, EntryIds(entries, pack)))]
    /\ UNCHANGED <<level, items, nextId, ops, last, prev, pending>>

\* After the loop: the feats are cloned with new ids (lines 117-145).
ResolveClone ==
    /\ res.pc = "fetch"
    /\ res.packs = <<>>
    /\ LET out == CloneFeats(res.fetched, Filter(res.entries, LAMBDA e : e.pack = ""),
                             res.locationId, res.locationId + 1)
       IN  res' = [res EXCEPT !.pc = "done", !.err = out.err, !.value = out.value,
                              !.cloned = out.err = ""]
    /\ UNCHANGED <<level, items, nextId, ops, last, prev, pending>>

NextResolve == ResolveStart \/ ResolveFetch \/ ResolveClone

SpecResolve == InitResolve /\ [][NextResolve]_vars

\* The steps together do what getFeatures does.
StepsAgree ==
    res.pc = "done" =>
        LET out == getFeatures(res.entries, res.locationId, res.locationId + 1)
        IN  res.err = out.err /\ res.value = out.value

----------------------------------------------------------------------------
\* Properties.

IsABC(type) == type \in {"ancestry", "background", "class"}

\* The feats in a list passed to createEmbeddedDocuments.
CreatedFeats(call) == Filter(call.created, LAMBDA i : i.type = "feat")

\* The class attached in a set of items (there is one).
ClassOf(its) == CHOOSE c \in ActorItemsOfType(its, "class") : TRUE

EntryRef(e) == <<e.pack, e.id>>

\* The attached class features are exactly the entries of the attached class
\* whose level is in lowest..highest: one feature for each, and no other.
ExactlyEntries(its, lowest, highest) ==
    /\ ActorItemsOfType(its, "class") # {}
    /\ LET E == {e \in Range(BuildEntries(ClassOf(its).build)) :
                   lowest <= e.level /\ e.level <= highest}
       IN  /\ {f.ref : f \in ClassFeatures(its)} = {EntryRef(e) : e \in E}
           /\ Cardinality(ClassFeatures(its)) = Cardinality(E)

\* last is a call of ensureClassFeaturesForLevel that repeats the one before it,
\* on a character with a class.
RepeatedSync ==
    /\ last.op = "sync" /\ prev.op = "sync"
    /\ last.err = "" /\ prev.err = ""
    /\ last.newLevel = prev.newLevel
    /\ ActorItemsOfType(prev.preItems, "class") # {}

RoundTrip ==
    /\ last.op = "update" /\ prev.op = "update"
    /\ last.err = "" /\ prev.err = ""
    /\ prev.newLevel > prev.preLevel
    /\ last.newLevel = prev.preLevel
    /\ ExactlyEntries(prev.preItems, 0, prev.preLevel)

\* C2: after the level went from lo up to hi and back to lo, each change with its
\* ensureClassFeaturesForLevel, the class features are again exactly the entries
\* with level <= lo.
C2_RoundTrip == RoundTrip => ExactlyEntries(items, 0, level)

\* last is a completed addABCItem of a class.
ClassAttached ==
    last.op = "attach" /\ last.err = "" /\ BuildType(last.build) = "class"

\* C3: after addABCItem of a class at level N every feature created has
\* level <= N, and the features created are exactly those of the entries with
\* level in [0, N].
C3_LevelMonotonicity ==
    ClassAttached =>
        /\ \A f \in Range(CreatedFeats(last)) : f.level <= last.preLevel
        /\ {f.ref : f \in Range(CreatedFeats(last))}
             = {EntryRef(e) : e \in {x \in Range(BuildEntries(last.build)) :
                                       0 <= x.level /\ x.level <= last.preLevel}}

\* C4: the list addABCItem passes to createEmbeddedDocuments for a class holds the
\* features by level ascending, features of one level by name ascending, and the
\* class after all of them.
C4_ClassAttachOrder ==
    ClassAttached =>
        LET n == Len(last.created)
        IN  /\ n >= 1
            /\ last.created[n].type = "class"
            /\ \A i \in 1..(n - 1) : last.created[i].type = "feat"
            /\ \A i, j \in 1..(n - 1) : i < j =>
                 /\ last.created[i].level <= last.created[j].level
                 /\ last.created[i].level = last.created[j].level
                      => ~StrGT(last.created[i].name, last.created[j].name)

C4_Witness ==
    /\ ClassAttached
    /\ \E i, j \in 1..Len(last.created) :
         /\ i < j
         /\ last.created[i].type = "feat" /\ last.created[j].type = "feat"
         /\ last.created[i].level = last.created[j].level
         /\ last.created[i].name # last.created[j].name
    /\ \E i, j \in 1..Len(last.created) :
         /\ last.created[i].type = "feat" /\ last.created[j].type = "feat"
         /\ last.created[i].level < last.created[j].level

\* The class with entries of levels [3, 1, 1] named Zeta, Beta, Alpha was attached
\* at a level >= 3.
FighterAttached == ClassAttached /\ last.build = "Fighter" /\ last.preLevel >= 3

CreatedNames(call) == [i \in 1..Len(CreatedFeats(call)) |-> CreatedFeats(call)[i].name]

\* C5 as stated: the features are created in the order Beta, Alpha, Zeta.
C5_AsStated == FighterAttached => CreatedNames(last) = <<"Beta", "Alpha", "Zeta">>

\* C5: the features are created in the order Alpha (1), Beta (1), Zeta (3).
C5_OrderingExample ==
    FighterAttached =>
        /\ CreatedNames(last) = <<"Alpha", "Beta", "Zeta">>
        /\ [i \in 1..3 |-> CreatedFeats(last)[i].level] = <<1, 1, 3>>

C5_Witness == FighterAttached /\ Len(last.created) = 4

\* last is a completed addABCItem for a type of which old was attached.
Replaced(old) ==
    /\ last.op = "attach" /\ last.err = "" /\ IsABC(BuildType(last.build))
    /\ old \in ActorItemsOfType(last.preItems, BuildType(last.build))

\* C6: after addABCItem on a character that had an item of the same type, that
\* item is gone, the new item and its features are there, and no feat located at
\* the old item is left.
C6_DetachBeforeAttach ==
    \A old \in last.preItems : Replaced(old) =>
        /\ \A i \in items : i.id # old.id
        /\ Range(last.created) \subseteq items
        /\ \E i \in Range(last.created) :
             i.type = old.type /\ i.build = last.build /\ i.id # old.id
        /\ \A f \in items : ~(f.type = "feat" /\ f.location = old.id)

C6_Witness ==
    \E old \in last.preItems :
        /\ Replaced(old)
        /\ \E f \in last.preItems : f.type = "feat" /\ f.location = old.id
        /\ \E f \in items : f.type = "feat" /\ f.location # NoLocation

\* C7: the character has at most one ancestry, one background and one class.
C7_OnePerKind ==
    \A type \in {"ancestry", "background", "class"} :
        Cardinality(ActorItemsOfType(items, type)) <= 1

C7_Witness ==
    /\ \E old \in last.preItems : Replaced(old)
    /\ prev.op = "attach" /\ prev.err # ""
    /\ Cardinality(ActorItemsOfType(items, BuildType(last.build))) = 1

\* C8: every class feature of the character has level <= the character's level.
C8_FeatureLevelBound == \A f \in ClassFeatures(items) : f.level <= level

\* The definition whose entries a call resolved: the class attached, or the
\* character's class.
ResolvedBuild(call) ==
    IF call.op = "attach" THEN call.build ELSE ClassOf(call.preItems).build

\* C9: a feature created from an entry of a class has the entry's level.
C9_EntryLevel ==
    (/\ last.err = ""
     /\ \/ ClassAttached
        \/ last.op \in {"sync", "update"} /\ last.created # <<>>)
    => \A f \in Range(CreatedFeats(last)) :
         \A e \in Range(BuildEntries(ResolvedBuild(last))) :
            EntryRef(e) = f.ref => f.level = e.level

\* last is a completed addABCItem of an ancestry or background with one assurance
\* skill, whose features hold one with slug "assurance"; resolved is the list
\* without the substitution.
AssuranceCase(resolved) ==
    /\ last.op = "attach" /\ last.err = ""
    /\ BuildType(last.build) \in {"ancestry", "background"}
    /\ Len(last.options) = 1
    /\ resolved.err = ""
    /\ Cardinality({i \in 1..Len(resolved.value) : resolved.value[i].slug = "assurance"}) = 1

\* The list addFeatures builds for last's definition without options, with the
\* ids last's call drew.
Unsubstituted == addFeatures(last.build, <<>>, last.created[1].id)

\* C10: the assurance feature is replaced at its index by one named
\* "Assurance (skill)" with the same location and a new id; the list keeps its
\* length and its other elements.
C10_AssuranceSubstitution ==
    (last.op = "attach" /\ last.err = "" /\ AssuranceCase(Unsubstituted)) =>
        LET resolved == Unsubstituted.value
            k == FindIndex(resolved, LAMBDA i : i.slug = "assurance")
            name == AssuranceName(last.options[1])
        IN  /\ Len(last.created) = Len(resolved)
            /\ \A i \in 1..Len(resolved) : i # k => last.created[i] = resolved[i]
            /\ last.created[k].name = name
            /\ Cardinality({i \in 1..Len(last.created) : last.created[i].name = name}) = 1
            /\ last.created[k].location = resolved[k].location
            /\ \A i \in 1..Len(resolved) : last.created[k].id # resolved[i].id
            /\ \A i \in last.preItems : last.created[k].id # i.id

C10_Witness ==
    /\ last.op = "attach" /\ last.err = "" /\ AssuranceCase(Unsubstituted)
    /\ \E i \in 1..Len(last.created) :
         last.created[i].name = "Assurance (Stealth)" /\ last.created[i].location # NoLocation

\* C11: a call of getFeatures makes at most one getDocuments query for each
\* distinct pack its entries name (five entries of one pack and two of another
\* make at most two queries), and a query asks for exactly the ids of the entries
\* of its pack.
C11_SingleBatch ==
    res.pc \in {"fetch", "done"} =>
        /\ \A i, j \in 1..Len(res.queries) :
              res.queries[i].pack = res.queries[j].pack => i = j
        /\ \A i \in 1..Len(res.queries) :
              /\ res.queries[i].pack \in {e.pack : e \in Range(res.entries)} \ {""}
              /\ res.queries[i].ids =
                    {e.id : e \in {x \in Range(res.entries) : x.pack = res.queries[i].pack}}
        /\ Len(res.queries) <= Cardinality({e.pack : e \in Range(res.entries)} \ {""})

\* The seven entries of two packs have been resolved with two queries.
C11_Witness ==
    /\ res.pc = "done"
    /\ res.err = ""
    /\ res.entries = FiveAndTwo
    /\ Len(res.queries) = 2
    /\ Cardinality(res.queries[1].ids) = 5
    /\ Cardinality(res.queries[2].ids) = 2

\* C12: when addABCItem for an ancestry, a background or a class throws (while
\* its features are resolved, while the Assurance feat is looked up, or in
\* createEmbeddedDocuments), nothing of the new definition has been attached and
\* the character has no item of that type: the one it had stays deleted.
C12_NoRollback ==
    (/\ last.op = "attach"
     /\ IsABC(BuildType(last.build))
     /\ last.err # "")
    => /\ ActorItemsOfType(items, BuildType(last.build)) = {}
       /\ items \subseteq last.preItems
       /\ last.created = <<>>
       /\ \A i \in items : i.build # last.build \/ i.type # BuildType(last.build)

\* createEmbeddedDocuments threw for a background while another was attached:
\* the character is left without a background.
C12_Witness ==
    /\ last.op = "attach"
    /\ last.err = "AttachFailed"
    /\ BuildType(last.build) = "background"
    /\ ActorItemsOfType(last.preItems, "background") # {}
    /\ ActorItemsOfType(items, "background") = {}

\* C13: addABCItem with a source that is not an ancestry, a background or a
\* class throws (the default branch of the switch) and the character's items
\* are what they were: nothing is deleted and nothing created.
C13_UnsupportedKind ==
    (last.op = "attach" /\ ~IsABC(BuildType(last.build)))
    => /\ last.err = "UnsupportedBuildKind"
       /\ items = last.preItems
       /\ last.created = <<>>
       /\ last.deleted = {}

\* A heritage was passed while the character had a background and a class with
\* its features.
C13_Witness ==
    /\ last.op = "attach"
    /\ BuildType(last.build) = "heritage"
    /\ \A type \in {"background", "class"} : ActorItemsOfType(items, type) # {}
    /\ ClassFeatures(items) # {}

\* C14: a call of ensureClassFeaturesForLevel that throws leaves the character's
\* items exactly as they were, and a call for a higher level deletes nothing:
\* createEmbeddedDocuments is reached only when every fetch has succeeded.
C14_CleanFailure ==
    last.op \in {"sync", "update"} =>
        /\ last.err # "" =>
              /\ items = last.preItems
              /\ last.created = <<>>
              /\ last.deleted = {}
        /\ last.newLevel > last.preLevel =>
              /\ last.deleted = {}
              /\ last.preItems \subseteq items

\* A call for a higher level threw on an entry that is not a feat while the
\* class and a class feature were attached.
C14_Witness ==
    /\ last.op = "sync"
    /\ last.newLevel > last.preLevel
    /\ last.err = "InvalidReference"
    /\ ActorItemsOfType(items, "class") # {}
    /\ ClassFeatures(items) # {}

\* The feats a class item's definition lists (by pack and id).
GrantedBy(class, i) ==
    i.type = "feat" /\ i.ref \in {EntryRef(e) : e \in Range(BuildEntries(class.build))}

\* C15 as stated: ensureClassFeaturesForLevel changes nothing when no class is
\* attached or newLevel is the level; otherwise every item it adds or removes is
\* a feature the attached class grants, so that class features from elsewhere
\* stay as they are.
C15_AsStated ==
    last.op \in {"sync", "update"} =>
        /\ (ActorItemsOfType(last.preItems, "class") = {} \/ last.newLevel = last.preLevel)
              => items = last.preItems
        /\ ActorItemsOfType(last.preItems, "class") # {} =>
              /\ \A i \in items \ last.preItems : GrantedBy(ClassOf(last.preItems), i)
              /\ \A i \in last.preItems \ items :
                    /\ i.featType = "classfeature"
                    /\ GrantedBy(ClassOf(last.preItems), i)

\* C15: ensureClassFeaturesForLevel changes nothing when no class is attached or
\* newLevel is the level. For a higher newLevel it only adds feats that the
\* attached class lists above the level and up to newLevel. For a lower newLevel
\* it removes the class features above newLevel, all of them, wherever they
\* came from, and nothing else. Items that are not class features are never
\* removed.
C15_Frame ==
    last.op \in {"sync", "update"} =>
        /\ (ActorItemsOfType(last.preItems, "class") = {} \/ last.newLevel = last.preLevel)
              => items = last.preItems
        /\ (ActorItemsOfType(last.preItems, "class") # {} /\ last.newLevel > last.preLevel) =>
              /\ last.preItems \subseteq items
              /\ \A i \in items \ last.preItems :
                    /\ i.type = "feat"
                    /\ \E e \in Range(BuildEntries(ClassOf(last.preItems).build)) :
                          /\ EntryRef(e) = i.ref
                          /\ last.preLevel < e.level
                          /\ e.level <= last.newLevel
        /\ (ActorItemsOfType(last.preItems, "class") # {} /\ last.newLevel < last.preLevel) =>
              /\ items \subseteq last.preItems
              /\ last.preItems \ items =
                    {f \in ClassFeatures(last.preItems) : f.level > last.newLevel}

\* A call for a lower level removed the class feature of level 3 that the
\* background had brought, which the attached class does not list, and kept a
\* class feature below newLevel.
C15_Witness ==
    /\ last.op \in {"sync", "update"}
    /\ last.err = ""
    /\ last.newLevel < last.preLevel
    /\ ActorItemsOfType(last.preItems, "class") # {}
    /\ \E f \in last.preItems \ items :
          /\ ~GrantedBy(ClassOf(last.preItems), f)
          /\ f.ref = <<"", "l3">>
          /\ f.level = 3
    /\ ClassFeatures(items) # {}

\* How often e occurs in s.
Count(s, e) == Cardinality({i \in 1..Len(s) : s[i] = e})

\* C16: the entries getClassFeaturesForLevel(item, minLevel, actorLevel) resolves
\* are none when minLevel >= actorLevel, and otherwise the item's entries with
\* minLevel < level <= actorLevel: each of them once, and no entry outside.
C16_LevelWindow ==
    (res.pc \in {"fetch", "done"} /\ res.build # "") =>
        LET all == BuildEntries(res.build)
        IN  /\ res.minLevel >= res.actorLevel => res.entries = <<>>
            /\ res.minLevel < res.actorLevel =>
                  /\ Range(res.entries) \subseteq Range(all)
                  /\ \A e \in Range(all) :
                        Count(res.entries, e) =
                            IF res.minLevel < e.level /\ e.level <= res.actorLevel
                            THEN Count(all, e) ELSE 0

\* Of a class with entries of levels 1, 2, 3 and 5, the window from 1 to 3 has
\* selected the two of levels 2 and 3.
C16_Witness ==
    /\ res.pc = "fetch"
    /\ res.build = "Rogue"
    /\ res.minLevel = 1
    /\ res.actorLevel = 3
    /\ Len(res.entries) = 2

\* The feats of a created list carry the location the resolver was given, if
\* they come from a pack, and none if they come from game.items.
Stamped(created, locationId) ==
    \A f \in Range(Filter(created, LAMBDA i : i.type = "feat")) :
        f.location = IF f.ref[1] # "" THEN locationId ELSE NoLocation

\* C17: a feat resolved from a pack has data.location set to the id handed to
\* getFeatures, which in addABCItem is the new id of the item created by the same
\* call and in ensureClassFeaturesForLevel is the id of the attached class; a feat
\* resolved from game.items has no location.
C17_LocationStamping ==
    /\ (last.op = "attach" /\ last.err = "" /\ IsABC(BuildType(last.build))) =>
          \E source \in Range(last.created) :
              /\ source.type = BuildType(last.build)
              /\ source.build = last.build
              /\ source.id \notin {i.id : i \in last.preItems}
              /\ source \in items
              /\ Stamped(last.created, source.id)
    /\ (last.op \in {"sync", "update"} /\ last.created # <<>>) =>
          Stamped(last.created, ClassOf(last.preItems).id)

\* A background with a pack entry and a game.items entry has been attached to a
\* character that had items already.
C17_Witness ==
    /\ last.op = "attach"
    /\ last.err = ""
    /\ last.build = "Scholar"
    /\ last.preItems # {}
    /\ \E f, g \in Range(last.created) :
          /\ f.type = "feat" /\ f.ref[1] # "" /\ f.location # NoLocation
          /\ g.type = "feat" /\ g.ref[1] = "" /\ g.location = NoLocation

\* C18 as stated: in a call of getFeatures over several packs no fetched
\* document has its level set, and no feat is given its new id, before the
\* documents of every pack have been fetched.
C18_AsStated ==
    (res.pc \in {"fetch", "done"} /\ (res.overridden # {} \/ res.cloned))
    => res.packs = <<>>

\* C18: the packs are fetched one after the other. The levels of a pack's class
\* features are set as soon as that pack has been fetched, before the next
\* pack is, and the feats are given their new ids only when every pack has been
\* fetched.
C18_JoinBarrier ==
    res.pc \in {"fetch", "done"} =>
        /\ res.cloned =>
              /\ res.packs = <<>>
              /\ {q.pack : q \in Range(res.queries)}
                    = {e.pack : e \in Range(res.entries)} \ {""}
        /\ ~res.cloned => res.value = <<>>
        /\ \A r \in res.overridden : r[1] \in {q.pack : q \in Range(res.queries)}
        /\ \A d \in Range(res.fetched) :
              d.featType = "classfeature" =>
                  /\ d.ref \in res.overridden
                  /\ d.level \in {e.level : e \in {x \in Range(res.entries) : x.id = d.id}}

\* The class features of the first pack have their levels set and the second
\* pack is still to be fetched.
C18_Witness ==
    /\ res.pc = "fetch"
    /\ res.overridden # {}
    /\ res.packs # <<>>
    /\ Head(res.packs) \in PackNames
    /\ ~res.cloned

\* The entry names a feat of a registered pack, or a feat of game.items.
Resolvable(e) ==
    IF e.pack = "" THEN e.id \in GameIds /\ GameItem(e.id).isFeat
    ELSE /\ e.pack \in PackNames
         /\ \E d \in Range(PackDocs(e.pack)) : d.id = e.id /\ d.isFeat

\* C19: when every entry names an existing feat, getFeatures returns one feat
\* for each entry, also for two entries that name the same document of a pack,
\* and a class feature from a pack has the level of its own entry.
C19_OnePerEntry ==
    (res.pc = "done" /\ \A e \in Range(res.entries) : Resolvable(e)) =>
        /\ res.err = ""
        /\ Len(res.value) = Len(res.entries)
        /\ \A e \in Range(res.entries) :
              Cardinality({i \in 1..Len(res.value) :
                             /\ res.value[i].ref = EntryRef(e)
                             /\ (e.pack # "" /\ res.value[i].featType = "classfeature")
                                   => res.value[i].level = e.level})
                 >= Count(res.entries, e)

\* No two attached class features have the same flags.core.sourceId.
NoDuplicates(its) ==
    \A f, g \in ClassFeatures(its) :
        (f.sourceId = g.sourceId /\ f.sourceId # NoSource) => f = g

\* last and prev are two calls of ensureClassFeaturesForLevel for the same higher
\* level that started from the same items, the second before the first had
\* created anything, and both have finished.
Overlapped ==
    /\ last.op = "resume" /\ prev.op = "resume"
    /\ last.newLevel = prev.newLevel
    /\ last.newLevel > last.preLevel
    /\ last.preItems = prev.preItems
    /\ last.preLevel = prev.preLevel
    /\ pending = {}

\* C20: after two overlapping calls of ensureClassFeaturesForLevel for the same
\* higher level, made on a character without duplicates, no two attached class
\* features have the same source id.
C20_NoDuplicates ==
    (Overlapped /\ NoDuplicates(last.preItems)) => NoDuplicates(items)

====
